---- MODULE Spec2Model ----
(***************************************************************************)
(* State-machine model of the autobidsportal pipeline orchestration:       *)
(* the Task table and the rq queue (models.py, cli.py), record             *)
(* reconciliation (dicom.py, tasks.py), the cfmm2tar acquisition batch,    *)
(* the tar2bids conversion batch and the dataset archival (tasks.py).      *)
(*                                                                         *)
(* Conventions: None is 0 for ids and times and <<>> for texts (a text is *)
(* the sequence of its messages).  A queued function receives the          *)
(* arguments of its own signature (a Study for a study id).  Python set    *)
(* iteration order is arbitrary; lists built from sets are taken in        *)
(* ascending order, no property below reads the order.  The task layer,    *)
(* reconciliation, acquisition, conversion and archival are explored by    *)
(* the specifications Spec, SpecRecon, SpecAcq, SpecConv and SpecArch over *)
(* the same variables and actions.                                         *)
(***************************************************************************)
EXTENDS Integers, Sequences, FiniteSets, TLC

\* ---------------------------------------------------------------- bounds
MaxJobs == 3
MaxClock == 3
MaxUid == 2
MaxStudy == 2
MaxCommits == 3
MaxBatch == 3
MaxSeries == 3

\* ------------------------------------------------------ program constants
MAX_CFMM2TAR_ATTEMPTS == 5
RETRY_RANGE_END == 6

JobIds == 1..MaxJobs
Studies == 1..MaxStudy
Uids == 1..MaxUid
NoStudy == 0

TASKS == {"run_cfmm2tar", "run_tar2bids", "update_heuristics", "archive_raw_data"}

VARIABLES
    tasks,              \* Task table: job id -> Task row
    jobs,               \* rq jobs: job id -> job (function, arguments, position)
    now,                \* wall clock read by datetime.now
    launch_log,         \* history: the launch_task calls made so far
    study_active,       \* Study.active
    study_custom_ria,   \* Study.custom_ria_url is not None
    dataset_content,    \* Study.dataset_content (0 = None, else the tree of a Raw version)
    remote_index,       \* records held by the DICOM server
    explicit_patients,  \* ExplicitPatient table
    cfmm2tar_outputs,   \* Cfmm2tarOutput table
    source_dataset,     \* files committed to the Source dataset
    tar2bids_outputs,   \* Tar2bidsOutput table
    datalad_datasets,   \* DataladDataset table: which (study, type) handles exist
    dataset_commits,    \* versioned store: (study, type) -> commits of the handle
    dataset_archives,   \* DatasetArchive table
    archive_remote,     \* the files copied to the cold storage, in order
    arch_hist,          \* history: handles whose archival runs overlapped, handles a run found up to date
    organized           \* the last call of organize_flat_responses: responses handed in, series list returned

vars == <<tasks, jobs, now, launch_log, study_active, study_custom_ria,
          dataset_content, remote_index, explicit_patients, cfmm2tar_outputs,
          source_dataset, tar2bids_outputs, datalad_datasets, dataset_commits,
          dataset_archives, archive_remote, arch_hist, organized>>

\* ---------------------------------------------------------------- helpers
SetMin(S) == CHOOSE x \in S : \A y \in S : x <= y
SetMax(S) == CHOOSE x \in S : \A y \in S : x >= y

RECURSIVE SetToSeq(_)
SetToSeq(S) == IF S = {} THEN <<>> ELSE <<SetMin(S)>> \o SetToSeq(S \ {SetMin(S)})

SeqToSet(q) == {q[i] : i \in 1..Len(q)}

\* ------------------------------------------------------------- Task table
NewTask(name, study, t) ==
    [name |-> name, study_id |-> study, complete |-> FALSE, success |-> FALSE,
     error |-> <<>>, start_time |-> t, end_time |-> 0, log |-> <<>>]

\* organize_flat_responses was not called
NoQuery == [responses |-> <<>>, series_metadata |-> <<>>, called |-> FALSE]

\* an empty download directory
NoFiles == [tars |-> 0, uids |-> 0, name |-> "ok"]

\* no archive packaged
NoBlob == [kind |-> "none", paths |-> {}, diffed |-> <<>>]

\* a job as Job.create makes it: the function, its arguments (no logger is
\* passed through the queue) and the position of the function in its work.
\* hist and res are history: per item the outcomes of the tool runs and the
\* way the handling of the item ended
NewJob(func, study, args, has_explicit) ==
    [func |-> func, study |-> study, status |-> "queued", args |-> args,
     has_explicit |-> has_explicit, logger |-> "null", idx |-> 1, attempt |-> 1,
     hist |-> [i \in 1..Len(args) |-> <<>>], res |-> [i \in 1..Len(args) |-> ""],
     seen |-> [i \in 1..Len(args) |-> NoFiles],
     errs |-> <<>>, done |-> {}, latest |-> 0, hexsha |-> 0, blob |-> NoBlob]

NewId(js) == SetMin(JobIds \ DOMAIN js)

TasksInProgress(ts, study, name) ==
    {j \in DOMAIN ts : ts[j].study_id = study /\ ts[j].name = name /\ ~ts[j].complete}

\* a launch that puts the job on the queue and adds no Task row
LaunchTaskNoRow(st, name, study, args) ==
    IF name \notin TASKS
    THEN [st EXCEPT !.raised = TRUE]
    ELSE [st EXCEPT !.jobs = @ @@ (NewId(st.jobs) :> NewJob(name, study, args, FALSE))]

\* Task.launch_task: the name check, then Job.create, the Task row, the commit
\* and enqueue_job.  st carries the job table, the Task table and the call log.
LaunchTask(st, name, study, args) ==
    LET dup == TasksInProgress(st.tasks, study, name) # {}
    IN IF name \notin TASKS
       THEN [st EXCEPT !.log = @ \cup {[name |-> name, study |-> study, dup |-> dup,
                                        outcome |-> "ValueError"]},
                       !.raised = TRUE]
       ELSE LET id == NewId(st.jobs)
            IN [st EXCEPT !.jobs = @ @@ (id :> NewJob(name, study, args, FALSE)),
                          !.tasks = @ @@ (id :> NewTask(name, study, now)),
                          !.log = @ \cup {[name |-> name, study |-> study, dup |-> dup,
                                           outcome |-> "created"]}]

LaunchState == [jobs |-> jobs, tasks |-> tasks, log |-> launch_log, raised |-> FALSE]

\* tasks.log_success
LogSuccessOp(ts, j, t) ==
    [ts EXCEPT ![j].complete = TRUE, ![j].success = TRUE, ![j].end_time = t]

LogFailureMarksSuccess(ts, j, t, error) ==
    [ts EXCEPT ![j].complete = TRUE, ![j].success = TRUE, ![j].end_time = t,
               ![j].error = error]

\* tasks.log_failure
LogFailureOp(ts, j, t, error) ==
    [ts EXCEPT ![j].complete = TRUE, ![j].success = FALSE, ![j].end_time = t,
               ![j].error = error]

\* TaskLogger.log appends to the log of its Task, NullLogger.log discards
TaskLog(ts, j, logger, msgs) ==
    IF logger = "task" /\ j \in DOMAIN ts THEN [ts EXCEPT ![j].log = @ \o msgs] ELSE ts

\* ----------------------------------------------------------- series lists
\* the decimal digits of a natural number, most significant first
RECURSIVE Digits(_)
Digits(n) == IF n < 10 THEN <<n>> ELSE Append(Digits(n \div 10), n % 10)

\* f"{number:03d}": the digits, with zeros in front up to a width of 3
Format03d(number) ==
    LET d == Digits(number)
    IN IF Len(d) >= 3 THEN d ELSE [i \in 1..(3 - Len(d)) |-> 0] \o d

\* the order of Python strings of digits: a < b
RECURSIVE StrLess(_, _)
StrLess(a, b) ==
    IF b = <<>> THEN FALSE
    ELSE IF a = <<>> THEN TRUE
    ELSE IF a[1] # b[1] THEN a[1] < b[1]
    ELSE StrLess(Tail(a), Tail(b))

\* key=lambda metadata: f"{metadata.number:03d}", compared as strings
SeriesKeyLess(x, y) == StrLess(Format03d(x), Format03d(y))

\* sorted(): the list in the order of the key, equal keys in their order
\* in the list
RECURSIVE InsertSorted(_, _)
InsertSorted(sorted, x) ==
    IF sorted = <<>> THEN <<x>>
    ELSE IF SeriesKeyLess(x, sorted[Len(sorted)])
    THEN Append(InsertSorted(SubSeq(sorted, 1, Len(sorted) - 1), x),
                sorted[Len(sorted)])
    ELSE Append(sorted, x)

RECURSIVE Sorted(_)
Sorted(list) ==
    IF list = <<>> THEN <<>>
    ELSE InsertSorted(Sorted(SubSeq(list, 1, Len(list) - 1)), list[Len(list)])

\* dicom.organize_flat_responses for the responses of one StudyInstanceUID:
\* the series numbers of the record's series_metadata
organize_flat_responses ==
    /\ ~organized.called
    /\ organized' = [organized EXCEPT !.series_metadata = Sorted(organized.responses),
                                      !.called = TRUE]
    /\ UNCHANGED <<tasks, jobs, now, launch_log>>
    /\ UNCHANGED <<study_active, study_custom_ria, dataset_content, remote_index,
                   explicit_patients, cfmm2tar_outputs, source_dataset,
                   tar2bids_outputs, datalad_datasets, dataset_commits,
                   dataset_archives, archive_remote, arch_hist>>

\* --------------------------------------------------------- reconciliation
\* dicom.get_inclusion_records: the records the server holds for the uids
InclusionRecords(uids_included) ==
    IF uids_included = {} THEN <<>>
    ELSE SetToSeq({r.uid : r \in {x \in remote_index : x.uid \in uids_included}})

\* dicom.get_description_records: the description query, filtered by
\* patient_name_re and by the uids excluded for the study
DescriptionRecords(study) ==
    LET uids_excluded == {e.uid : e \in {x \in explicit_patients :
                                          x.study_id = study /\ ~x.included}}
    IN SetToSeq({r.uid : r \in {x \in remote_index :
                    x.study = study /\ x.name_ok /\ x.uid \notin uids_excluded}})

StudyRecordsUnfiltered(study) ==
    LET uids_included == {e.uid : e \in {x \in explicit_patients :
                                          x.study_id = study /\ x.included}}
        inc == InclusionRecords(uids_included)
        des == DescriptionRecords(study)
    IN [i \in 1..Len(inc) |-> [study_uid |-> inc[i], via |-> "inclusion"]]
       \o [i \in 1..Len(des) |-> [study_uid |-> des[i], via |-> "description"]]

\* dicom.get_study_records: a record is [study_uid, via]
StudyRecords(study) ==
    LET uids_included == {e.uid : e \in {x \in explicit_patients :
                                          x.study_id = study /\ x.included}}
        inc == InclusionRecords(uids_included)
        des == DescriptionRecords(study)
    IN [i \in 1..Len(inc) |-> [study_uid |-> inc[i], via |-> "inclusion"]]
       \o SelectSeq([i \in 1..Len(des) |-> [study_uid |-> des[i], via |-> "description"]],
                    LAMBDA rec : rec.study_uid \notin uids_included)

ExistingUids(study) == {o.uid : o \in {x \in cfmm2tar_outputs : x.study_id = study}}

\* tasks.find_studies_to_download: the uids of the targets, in list order.
\* (record["StudyInstanceUID"] is read as the record's uid; get_study_records
\* returns StudyMetadata objects whose field is study_uid.)
FindStudiesToDownload(study, has_explicit, explicit_scans) ==
    IF has_explicit
    THEN SelectSeq(explicit_scans, LAMBDA u : u \notin ExistingUids(study))
    ELSE LET recs == StudyRecords(study)
         IN SelectSeq([i \in 1..Len(recs) |-> recs[i].study_uid],
                      LAMBDA u : u \notin ExistingUids(study))

\* ------------------------------------------------------------ CLI triggers
RECURSIVE EnqueueLoop(_, _, _, _)
EnqueueLoop(todo, js, name, func) ==
    IF todo = {} THEN js
    ELSE LET s == SetMin(todo)
         IN IF TasksInProgress(tasks, s, name) # {} \/ ~study_active[s]
            THEN EnqueueLoop(todo \ {s}, js, name, func)
            ELSE EnqueueLoop(todo \ {s},
                             js @@ (NewId(js) :> NewJob(func, s, <<>>, FALSE)),
                             name, func)

Eligible(name) ==
    {s \in Studies : TasksInProgress(tasks, s, name) = {} /\ study_active[s]}

FreeIds == JobIds \ DOMAIN jobs

UNCHANGED_data ==
    UNCHANGED <<study_active, study_custom_ria, dataset_content, remote_index,
                explicit_patients, cfmm2tar_outputs, source_dataset,
                tar2bids_outputs, datalad_datasets, dataset_commits,
                dataset_archives, archive_remote, arch_hist, organized>>

\* cli.run_all_cfmm2tar
run_all_cfmm2tar ==
    /\ Cardinality(Eligible("run_cfmm2tar")) <= Cardinality(FreeIds)
    /\ jobs' = EnqueueLoop(Studies, jobs, "run_cfmm2tar", "check_tar_files")
    /\ UNCHANGED <<tasks, now, launch_log>>
    /\ UNCHANGED_data

\* cli.run_all_tar2bids
run_all_tar2bids ==
    /\ Cardinality(Eligible("run_tar2bids")) <= Cardinality(FreeIds)
    /\ jobs' = EnqueueLoop(Studies, jobs, "run_tar2bids", "find_unprocessed_tar_files")
    /\ UNCHANGED <<tasks, now, launch_log>>
    /\ UNCHANGED_data

RECURSIVE ArchiveLoop(_, _)
ArchiveLoop(todo, st) ==
    IF todo = {} THEN st
    ELSE LET s == SetMin(todo)
         IN IF TasksInProgress(st.tasks, s, "get_info_from_tar2bids") # {}
               \/ ~study_active[s]
            THEN ArchiveLoop(todo \ {s}, st)
            ELSE ArchiveLoop(todo \ {s}, LaunchTask(st, "archive_raw_data", s, <<>>))

\* cli.run_all_archive
run_all_archive ==
    /\ Cardinality(Eligible("get_info_from_tar2bids")) <= Cardinality(FreeIds)
    /\ LET st == ArchiveLoop(Studies, LaunchState)
       IN /\ jobs' = st.jobs
          /\ tasks' = st.tasks
          /\ launch_log' = st.log
    /\ UNCHANGED now
    /\ UNCHANGED_data

\* ------------------------------------------------------------------ worker
\* an rq worker takes a queued job
StartJob(j) ==
    /\ j \in DOMAIN jobs
    /\ jobs[j].status = "queued"
    /\ jobs' = [jobs EXCEPT ![j].status = "started"]
    /\ UNCHANGED <<tasks, now, launch_log>>
    /\ UNCHANGED_data

Running(j, func) ==
    /\ j \in DOMAIN jobs
    /\ jobs[j].status = "started"
    /\ jobs[j].func = func

\* tasks.check_tar_files
check_tar_files(j) ==
    /\ Running(j, "check_tar_files")
    /\ LET studies_to_download ==
               FindStudiesToDownload(jobs[j].study, jobs[j].has_explicit, jobs[j].args)
       IN IF studies_to_download = <<>>
          THEN /\ jobs' = [jobs EXCEPT ![j].status = "returned"]
               /\ UNCHANGED tasks
          ELSE /\ FreeIds # {}
               /\ LET id == NewId(jobs)
                  IN /\ jobs' = [jobs EXCEPT ![j].status = "returned"]
                                @@ (id :> NewJob("run_cfmm2tar", jobs[j].study,
                                                 studies_to_download, FALSE))
                     /\ tasks' = tasks @@ (id :> NewTask("run_cfmm2tar", jobs[j].study, now))
    /\ UNCHANGED <<now, launch_log>>
    /\ UNCHANGED_data

\* the Raw handle's Cfmm2tarOutput rows (dataset.cfmm2tar_outputs)
RawLinked(study) ==
    IF <<study, "raw">> \in datalad_datasets
    THEN {o.id : o \in {x \in cfmm2tar_outputs : x.study_id = study /\ x.datalad_dataset}}
    ELSE {}

NewTarFileIds(study) ==
    {o.id : o \in {x \in cfmm2tar_outputs : x.study_id = study}} \ RawLinked(study)

\* tasks.find_unprocessed_tar_files
find_unprocessed_tar_files(j) ==
    /\ Running(j, "find_unprocessed_tar_files")
    /\ LET new_tar_file_ids == NewTarFileIds(jobs[j].study)
       IN IF new_tar_file_ids = {}
          THEN /\ jobs' = [jobs EXCEPT ![j].status = "returned"]
               /\ UNCHANGED <<tasks, launch_log>>
          ELSE /\ FreeIds # {}
               /\ LET st == LaunchTask(LaunchState, "run_tar2bids", jobs[j].study,
                                       SetToSeq(new_tar_file_ids))
                  IN /\ jobs' = [st.jobs EXCEPT ![j].status = "returned"]
                     /\ tasks' = st.tasks
                     /\ launch_log' = st.log
    /\ UNCHANGED now
    /\ UNCHANGED_data

\* tasks.log_success(job), job being one a worker has taken
log_success(j) ==
    /\ j \in DOMAIN tasks
    /\ jobs[j].status # "queued"
    /\ now < MaxClock
    /\ tasks' = LogSuccessOp(tasks, j, now)
    /\ now' = now + 1
    /\ UNCHANGED <<jobs, launch_log>>
    /\ UNCHANGED_data

\* tasks.log_failure(job, error), job being one a worker has taken
log_failure(j, error) ==
    /\ j \in DOMAIN tasks
    /\ jobs[j].status # "queued"
    /\ now < MaxClock
    /\ tasks' = LogFailureOp(tasks, j, now, error)
    /\ now' = now + 1
    /\ UNCHANGED <<jobs, launch_log>>
    /\ UNCHANGED_data

\* -------------------------------------------------------------- datasets
\* datalad.ensure_dataset_exists: the handle is created on first use
EnsureDatasets(study, types) == datalad_datasets \cup {<<study, t>> : t \in types}

\* the version id (hexsha) of a handle is the number of commits made to it;
\* its commit date is that of the last commit (commit dates increase)
Hexsha(study, type) == Len(dataset_commits[<<study, type>>])

\* datalad.finalize_dataset_changes
Commit(study, type, what) ==
    [dataset_commits EXCEPT ![<<study, type>>] = Append(@, what)]

\* ----------------------------------------------------------- acquisition
\* one run of the cfmm2tar tool: the subprocess failed or not, "Timeout.java"
\* is in its output or not, "Retrieving #" blocks were printed or not, and
\* the files it left in the download directory
FileScenarios ==
    {[tars |-> 1, uids |-> 1, name |-> "ok"],
     [tars |-> 0, uids |-> 1, name |-> "ok"],
     [tars |-> 1, uids |-> 0, name |-> "ok"],
     [tars |-> 2, uids |-> 1, name |-> "ok"],
     [tars |-> 1, uids |-> 2, name |-> "ok"],
     [tars |-> 1, uids |-> 1, name |-> "unparsable"],
     [tars |-> 1, uids |-> 1, name |-> "baddate"]}

ToolRuns ==
    {[failed |-> f, marker |-> m, listed |-> FALSE, files |-> NoFiles] :
        f \in BOOLEAN, m \in BOOLEAN}
    \cup {[failed |-> FALSE, marker |-> m, listed |-> TRUE, files |-> fs] :
        m \in BOOLEAN, fs \in FileScenarios}

\* Dcm4cheUtils.run_cfmm2tar: what the call does for a tool run
RunCfmm2tar(run) ==
    IF run.failed
    THEN IF run.marker THEN "Cfmm2tarTimeoutError" ELSE "Cfmm2tarError"
    ELSE IF ~run.listed /\ run.marker THEN "Cfmm2tarTimeoutError" ELSE "ok"

\* a loop that retries after any failure of the tool
RetryAnyFailure(attempt, result) ==
    IF result = "ok" THEN "break"
    ELSE IF attempt < MAX_CFMM2TAR_ATTEMPTS THEN "retry" ELSE "raise"

\* a loop that gives up silently after the last timeout
RetrySwallowsLastTimeout(attempt, result) ==
    IF result = "Cfmm2tarTimeoutError"
    THEN IF attempt < MAX_CFMM2TAR_ATTEMPTS THEN "retry" ELSE "exhausted"
    ELSE IF result = "ok" THEN "break" ELSE "raise"

\* tasks.run_cfmm2tar_with_retries, one pass of its loop over range(1, 6):
\* "retry" (continue), "raise" (the exception leaves the function), "break",
\* or "exhausted" (continue on the last value of the range: the function
\* returns its initial empty result)
RetryStep(attempt, result) ==
    IF result = "Cfmm2tarTimeoutError"
    THEN IF attempt < MAX_CFMM2TAR_ATTEMPTS
         THEN IF attempt + 1 < RETRY_RANGE_END THEN "retry" ELSE "exhausted"
         ELSE "raise"
    ELSE IF result = "ok" THEN "break" ELSE "raise"

\* tasks.record_cfmm2tar: the file name is parsed, then the row is added
RecordCfmm2tar(name) ==
    IF name = "unparsable" THEN "Cfmm2tarError"
    ELSE IF name = "baddate" THEN "ValueError"
    ELSE "recorded"

\* tasks.handle_cfmm2tar after the tool returned: [committed, result]
HandleFiles(files) ==
    IF files.tars = 0 /\ files.uids = 0
    THEN [committed |-> FALSE, result |-> "Cfmm2tarError", msg |-> "No cfmm2tar results parsed"]
    ELSE IF files.tars = 0
    THEN [committed |-> FALSE, result |-> "Cfmm2tarError", msg |-> "No tar file produced."]
    ELSE IF files.uids = 0
    THEN [committed |-> FALSE, result |-> "Cfmm2tarError", msg |-> "No uid file produced."]
    ELSE [committed |-> TRUE, result |-> RecordCfmm2tar(files.name),
          msg |-> "Output could not be parsed."]

NextOutputId == IF cfmm2tar_outputs = {} THEN 1
                ELSE 1 + SetMax({o.id : o \in cfmm2tar_outputs})

\* the position of the batch after the current target: next target or return
AfterTarget(job) ==
    IF job.idx < Len(job.args)
    THEN [job EXCEPT !.idx = @ + 1, !.attempt = 1]
    ELSE [job EXCEPT !.idx = @ + 1, !.attempt = 1, !.status = "returned"]

UNCHANGED_acq_rest ==
    UNCHANGED <<now, launch_log, study_active, study_custom_ria, dataset_content,
                remote_index, explicit_patients, tar2bids_outputs, dataset_commits,
                dataset_archives, archive_remote, arch_hist, organized>>

BatchCatchesNothing(result) == FALSE

\* the batch keeps going after a Cfmm2tarError of a target
BatchCatches(result) == result = "Cfmm2tarError"

\* tasks.run_cfmm2tar called with no target
run_cfmm2tar_empty(j) ==
    /\ Running(j, "run_cfmm2tar")
    /\ jobs[j].args = <<>>
    /\ jobs' = [jobs EXCEPT ![j].status = "returned"]
    /\ UNCHANGED <<tasks, cfmm2tar_outputs, source_dataset, datalad_datasets>>
    /\ UNCHANGED_acq_rest

\* tasks.run_cfmm2tar, one attempt of the tool on the current target with
\* what follows it in handle_cfmm2tar and in the loop of the batch
run_cfmm2tar(j, run) ==
    /\ Running(j, "run_cfmm2tar")
    /\ jobs[j].idx <= Len(jobs[j].args)
    /\ LET job == jobs[j]
           study == job.study
           uid == job.args[job.idx]
           result == RunCfmm2tar(run)
           step == RetryStep(job.attempt, result)
           handled == HandleFiles(run.files)
           outcome == IF step = "raise" THEN result
                      ELSE IF step \in {"break", "exhausted"} THEN handled.result
                      ELSE "retry"
           tried == [job EXCEPT !.hist[job.idx] = Append(@, result),
                                !.seen[job.idx] = run.files,
                                !.res[job.idx] = IF outcome = "retry" THEN "" ELSE outcome]
           msg == IF step = "raise" THEN "Cfmm2tar failed" ELSE handled.msg
       IN /\ datalad_datasets' = EnsureDatasets(study, {"source"})
          /\ source_dataset' =
                IF step \in {"break", "exhausted"} /\ handled.committed
                THEN source_dataset \cup {[study_id |-> study, uid |-> uid]}
                ELSE source_dataset
          /\ cfmm2tar_outputs' =
                IF outcome = "recorded"
                THEN cfmm2tar_outputs \cup
                        {[id |-> NextOutputId, study_id |-> study, uid |-> uid,
                          datalad_dataset |-> FALSE]}
                ELSE cfmm2tar_outputs
          /\ IF outcome = "retry"
             THEN /\ jobs' = [jobs EXCEPT ![j] = [tried EXCEPT !.attempt = @ + 1]]
                  /\ UNCHANGED tasks
             ELSE IF outcome = "recorded"
             THEN /\ jobs' = [jobs EXCEPT ![j] =
                                AfterTarget([tried EXCEPT !.done = @ \cup {job.idx}])]
                  /\ UNCHANGED tasks
             ELSE IF BatchCatches(outcome)
             THEN /\ jobs' = [jobs EXCEPT ![j] =
                                AfterTarget([tried EXCEPT !.errs = Append(@, msg)])]
                  /\ tasks' = TaskLog(tasks, j, job.logger, <<msg>>)
             ELSE /\ jobs' = [jobs EXCEPT ![j] = [tried EXCEPT !.status = "raised"]]
                  /\ UNCHANGED tasks
    /\ UNCHANGED_acq_rest

\* the end of a job that has a Task row: the Task is marked Failed when the
\* function raised or logged target failures, Succeeded otherwise
JobFailed(job) == job.status = "raised" \/ job.errs # <<>>

WorkerFinish(j) ==
    /\ j \in DOMAIN jobs
    /\ j \in DOMAIN tasks
    /\ jobs[j].status \in {"returned", "raised"}
    /\ now < MaxClock
    /\ tasks' = IF JobFailed(jobs[j])
                THEN LogFailureOp(tasks, j, now,
                                  IF jobs[j].status = "raised"
                                  THEN Append(jobs[j].errs, "exception")
                                  ELSE jobs[j].errs)
                ELSE LogSuccessOp(tasks, j, now)
    /\ now' = now + 1
    /\ jobs' = [jobs EXCEPT ![j].status = "reported"]
    /\ UNCHANGED launch_log
    /\ UNCHANGED_data

\* ------------------------------------------------------------ conversion
UNCHANGED_conv_rest ==
    UNCHANGED <<now, launch_log, study_active, study_custom_ria, remote_index,
                explicit_patients, source_dataset, dataset_archives,
                archive_remote, arch_hist, organized>>

\* tasks.run_tar2bids called with no tar file
run_tar2bids_empty(j) ==
    /\ Running(j, "run_tar2bids")
    /\ jobs[j].args = <<>>
    /\ jobs' = [jobs EXCEPT ![j].status = "returned"]
    /\ UNCHANGED <<tasks, cfmm2tar_outputs, tar2bids_outputs, datalad_datasets,
                   dataset_commits, dataset_content>>
    /\ UNCHANGED_conv_rest

\* a batch that goes on to the next tar file after a Tar2bidsError
Tar2bidsErrorSkipped(job) == AfterTarget(job)

\* the except clause of the loop ends with raise: the Tar2bidsError leaves
\* run_tar2bids
Tar2bidsErrorRaised(job) == [job EXCEPT !.status = "raised"]

\* tasks.run_tar2bids, one pass of its loop (the tool on one tar file, the
\* merge and the commit) and, after the last pass, the Tar2bidsOutput row
run_tar2bids(j, ok) ==
    /\ Running(j, "run_tar2bids")
    /\ jobs[j].idx <= Len(jobs[j].args)
    /\ ok => Len(dataset_commits[<<jobs[j].study, "raw">>]) < MaxCommits
    /\ LET job == jobs[j]
           study == job.study
           tar_id == job.args[job.idx]
           last == job.idx = Len(job.args)
       IN /\ datalad_datasets' = EnsureDatasets(study, {"source", "raw"})
          /\ IF ~ok
             THEN /\ tasks' = TaskLog(tasks, j, job.logger,
                                      <<"Tar2bids failed", "Dataset contents:", "listing">>)
                  /\ jobs' = [jobs EXCEPT ![j] =
                                Tar2bidsErrorRaised(
                                    [job EXCEPT !.hist[job.idx] = <<"Tar2bidsError">>,
                                                !.res[job.idx] = "Tar2bidsError"])]
                  /\ UNCHANGED <<cfmm2tar_outputs, tar2bids_outputs, dataset_commits,
                                 dataset_content>>
             ELSE /\ tasks' = TaskLog(tasks, j, job.logger, <<"tar2bids output">>)
                  /\ dataset_commits' =
                        Commit(study, "raw",
                               [ts |-> Hexsha(study, "raw") + 1, by |-> "tar2bids",
                                item |-> tar_id])
                  /\ dataset_content' =
                        [dataset_content EXCEPT ![study] = Hexsha(study, "raw") + 1]
                  /\ cfmm2tar_outputs' =
                        {IF o.id = tar_id THEN [o EXCEPT !.datalad_dataset = TRUE] ELSE o :
                            o \in cfmm2tar_outputs}
                  /\ jobs' = [jobs EXCEPT ![j] =
                                AfterTarget([job EXCEPT !.done = @ \cup {job.idx},
                                                        !.hist[job.idx] = <<"ok">>,
                                                        !.res[job.idx] = "merged"])]
                  /\ tar2bids_outputs' =
                        IF last
                        THEN tar2bids_outputs \cup
                                {[id |-> Cardinality(tar2bids_outputs) + 1,
                                  study_id |-> study,
                                  cfmm2tar_outputs |-> SeqToSet(job.args)]}
                        ELSE tar2bids_outputs
    /\ UNCHANGED_conv_rest

\* -------------------------------------------------------------- archival
ArchiveType(func) == IF func = "archive_raw_data" THEN "raw" ELSE "derived"

ArchivesOf(handle) ==
    {i \in 1..Len(dataset_archives) : dataset_archives[i].dataset = handle}

\* max(dataset.dataset_archives, default=None, key=commit_datetime): the
\* first row of the greatest commit date, 0 for None
LatestArchive(handle) ==
    IF ArchivesOf(handle) = {} THEN 0
    ELSE SetMin({i \in ArchivesOf(handle) :
                    \A k \in ArchivesOf(handle) :
                        dataset_archives[k].commit_datetime
                            <= dataset_archives[i].commit_datetime})

CommitDate(handle, hexsha) ==
    IF hexsha = 0 THEN 0 ELSE dataset_commits[handle][hexsha].ts

\* the first lines of archive_raw_data / archive_derivative_data
ArchiveSkips(func, study) ==
    IF func = "archive_raw_data"
    THEN study_custom_ria[study] \/ dataset_content[study] = 0
    ELSE study_custom_ria[study]

\* what GitRepo.diff(fr, to) can report: entries of a path, its state and
\* its type
DiffResults ==
    {{},
     {[path |-> "f1", state |-> "added", type |-> "file"],
      [path |-> "f2", state |-> "modified", type |-> "symlink"]},
     {[path |-> "f1", state |-> "modified", type |-> "file"],
      [path |-> "f3", state |-> "deleted", type |-> "file"],
      [path |-> "f4", state |-> "deleted", type |-> "symlink"],
      [path |-> "d1", state |-> "added", type |-> "directory"],
      [path |-> "d2", state |-> "modified", type |-> "dataset"]}}

EveryDiffPath(entries) == {e.path : e \in entries}

\* updated_files in archive_partial_dataset
UpdatedFiles(entries) ==
    {e.path : e \in {x \in entries : /\ x.state \in {"added", "modified"}
                                      /\ x.type \in {"file", "symlink"}}}

PartialArchiveAlways(latest, hexsha, entries) ==
    [kind |-> "partial", paths |-> UpdatedFiles(entries),
     diffed |-> <<IF latest = 0 THEN 0 ELSE dataset_archives[latest].dataset_hexsha,
                  hexsha, entries>>]

\* archive_entire_dataset if there is no latest archive, else
\* archive_partial_dataset: the archive file that is made.  diffed is
\* history: the versions handed to GitRepo.diff and what it reported
MakeArchive(latest, hexsha, entries) ==
    IF latest = 0
    THEN [kind |-> "full", paths |-> {}, diffed |-> <<>>]
    ELSE [kind |-> "partial", paths |-> UpdatedFiles(entries),
          diffed |-> <<dataset_archives[latest].dataset_hexsha, hexsha, entries>>]

NeverUpToDate(latest, hexsha) == FALSE

\* "Archive for study up to date"
UpToDate(latest, hexsha) ==
    latest # 0 /\ dataset_archives[latest].dataset_hexsha = hexsha

InTransfer(handle) ==
    {k \in DOMAIN jobs : /\ jobs[k].status = "transfer"
                         /\ <<jobs[k].study, ArchiveType(jobs[k].func)>> = handle}

UNCHANGED_arch_rest ==
    UNCHANGED <<tasks, now, launch_log, study_active, study_custom_ria,
                dataset_content, remote_index, explicit_patients, cfmm2tar_outputs,
                source_dataset, tar2bids_outputs, dataset_commits, organized>>

\* archive_raw_data / archive_derivative_data up to the packaging of the blob
archive_begin(j, entries) ==
    /\ j \in DOMAIN jobs
    /\ jobs[j].status = "started"
    /\ jobs[j].func \in {"archive_raw_data", "archive_derivative_data"}
    /\ LET job == jobs[j]
           handle == <<job.study, ArchiveType(job.func)>>
           latest == LatestArchive(handle)
           hexsha == Hexsha(handle[1], handle[2])
       IN IF ArchiveSkips(job.func, job.study)
          THEN /\ jobs' = [jobs EXCEPT ![j].status = "returned"]
               /\ UNCHANGED <<datalad_datasets, arch_hist>>
          ELSE /\ datalad_datasets' = EnsureDatasets(job.study, {handle[2]})
               /\ IF UpToDate(latest, hexsha)
                  THEN /\ jobs' = [jobs EXCEPT ![j].status = "returned"]
                       /\ arch_hist' = [arch_hist EXCEPT !.noop = @ \cup {handle}]
                  ELSE /\ jobs' = [jobs EXCEPT ![j].status = "transfer",
                                               ![j].latest = latest,
                                               ![j].hexsha = hexsha,
                                               ![j].blob =
                                                  MakeArchive(latest, hexsha, entries)]
                       /\ arch_hist' =
                            IF InTransfer(handle) # {}
                            THEN [arch_hist EXCEPT !.overlap = @ \cup {handle}]
                            ELSE arch_hist
    /\ UNCHANGED <<dataset_archives, archive_remote>>
    /\ UNCHANGED_arch_rest

\* the DatasetArchive that archive_entire_dataset or archive_partial_dataset
\* returns
ArchiveRow(job) ==
    [dataset |-> <<job.study, ArchiveType(job.func)>>, parent_id |-> job.latest,
     dataset_hexsha |-> job.hexsha,
     commit_datetime |->
         CommitDate(<<job.study, ArchiveType(job.func)>>, job.hexsha)]

RowsAddedBeforeTransfer(ok, job) == Append(dataset_archives, ArchiveRow(job))

\* db.session.add(archive) comes after make_remote_dir and copy_file: an
\* exception of either leaves the function before it
RowsAfterTransfer(ok, job) ==
    IF ok THEN Append(dataset_archives, ArchiveRow(job)) ELSE dataset_archives

\* make_remote_dir and copy_file, then the DatasetArchive row
archive_transfer(j, ok) ==
    /\ j \in DOMAIN jobs
    /\ jobs[j].status = "transfer"
    /\ LET job == jobs[j]
           handle == <<job.study, ArchiveType(job.func)>>
       IN IF ok
          THEN /\ archive_remote' =
                    Append(archive_remote,
                           [dataset |-> handle, hexsha |-> job.hexsha,
                            kind |-> job.blob.kind, paths |-> job.blob.paths])
               /\ jobs' = [jobs EXCEPT ![j].status = "returned", ![j].latest = 0,
                                       ![j].hexsha = 0, ![j].blob = NoBlob]
          ELSE /\ jobs' = [jobs EXCEPT ![j].status = "raised", ![j].latest = 0,
                                       ![j].hexsha = 0, ![j].blob = NoBlob]
               /\ UNCHANGED archive_remote
    /\ dataset_archives' = RowsAfterTransfer(ok, jobs[j])
    /\ UNCHANGED <<datalad_datasets, arch_hist>>
    /\ UNCHANGED_arch_rest

\* ------------------------------------------------------------ correction
\* tasks.gradcorrect_study: both handles are ensured, the Derived one gets
\* one commit
gradcorrect_study(s) ==
    /\ s \in Studies
    /\ study_active[s]
    /\ Len(dataset_commits[<<s, "derived">>]) < MaxCommits
    /\ datalad_datasets' = EnsureDatasets(s, {"raw", "derived"})
    /\ dataset_commits' =
            Commit(s, "derived", [ts |-> Hexsha(s, "derived") + 1,
                                  by |-> "gradcorrect", item |-> 0])
    /\ UNCHANGED <<tasks, jobs, now, launch_log, study_active, study_custom_ria,
                   dataset_content, remote_index, explicit_patients,
                   cfmm2tar_outputs, source_dataset, tar2bids_outputs,
                   dataset_archives, archive_remote, arch_hist, organized>>

\* a call of tasks.archive_derivative_data(study) put on the queue
enqueue_archive_derivative_data(s) ==
    /\ s \in Studies
    /\ study_active[s]
    /\ FreeIds # {}
    /\ jobs' = jobs @@ (NewId(jobs) :> NewJob("archive_derivative_data", s, <<>>, FALSE))
    /\ UNCHANGED <<tasks, now, launch_log>>
    /\ UNCHANGED_data

\* Study.scanner: study 1 is scanned on the "type2" scanner, the others are
\* not
Scanner(s) == IF s = 1 THEN "type2" ELSE "type1"

\* tasks.find_uncorrected_images; subjects are the subjects of the Raw
\* dataset with an image that the Derived dataset does not hold corrected
find_uncorrected_images(j, subjects) ==
    /\ Running(j, "find_uncorrected_images")
    /\ LET study == jobs[j].study
           need == /\ Scanner(study) = "type2"
                   /\ <<study, "raw">> \in datalad_datasets
                   /\ (<<study, "derived">> \in datalad_datasets => subjects # {})
           subject_labels == IF <<study, "derived">> \in datalad_datasets
                             THEN SetToSeq(subjects) ELSE <<>>
           st == LaunchTask(LaunchState, "gradcorrect_study", study, subject_labels)
       IN IF ~need
          THEN /\ jobs' = [jobs EXCEPT ![j].status = "returned"]
               /\ UNCHANGED <<tasks, launch_log>>
          ELSE /\ st.raised \/ FreeIds # {}
               /\ jobs' = [st.jobs EXCEPT ![j].status =
                                IF st.raised THEN "raised" ELSE "returned"]
               /\ tasks' = st.tasks
               /\ launch_log' = st.log
    /\ UNCHANGED now
    /\ UNCHANGED_data

\* ------------------------------------------------------------- overrides
\* routes.update_exclusions, the loop over choices_to_exclude: the row of the
\* uid is looked up by uid alone and deleted, a row excluding the uid from
\* the study is added, and both are committed.  The flush of a delete and an
\* insert of the same uid either replaces the row or, where the unique index
\* on study_instance_uid is checked at the insert, fails with IntegrityError
\* and leaves the table as it was.
RECURSIVE ExcludeLoop(_, _, _, _)
ExcludeLoop(rows, study, choices, unique_checked) ==
    IF choices = <<>> THEN [rows |-> rows, raised |-> FALSE]
    ELSE LET old_uid == {x \in rows : x.uid = Head(choices)}
             excluded_uid == [study_id |-> study, uid |-> Head(choices),
                              included |-> FALSE]
         IN IF old_uid # {} /\ unique_checked
            THEN [rows |-> rows, raised |-> TRUE]
            ELSE ExcludeLoop((rows \ old_uid) \cup {excluded_uid}, study,
                             Tail(choices), unique_checked)

\* the loop over choices_to_include: it stops at the first uid that has a
\* row, and adds a row including the uid in the study otherwise
RECURSIVE IncludeLoop(_, _, _)
IncludeLoop(rows, study, choices) ==
    IF choices = <<>> THEN rows
    ELSE IF \E x \in rows : x.uid = Head(choices) THEN rows
    ELSE IncludeLoop(rows \cup {[study_id |-> study, uid |-> Head(choices),
                                 included |-> TRUE]},
                     study, Tail(choices))

\* routes.update_exclusions(study_id) with the two lists of the forms
update_exclusions(study, choices_to_exclude, choices_to_include, unique_checked) ==
    /\ study \in Studies
    /\ LET excluded == ExcludeLoop(explicit_patients, study, choices_to_exclude,
                                   unique_checked)
       IN explicit_patients' =
             IF excluded.raised THEN excluded.rows
             ELSE IncludeLoop(excluded.rows, study, choices_to_include)
    /\ UNCHANGED <<tasks, jobs, now, launch_log, study_active, study_custom_ria,
                   dataset_content, remote_index, cfmm2tar_outputs, source_dataset,
                   tar2bids_outputs, datalad_datasets, dataset_commits,
                   dataset_archives, archive_remote, arch_hist, organized>>

\* ----------------------------------------------------------------- timeout
TimeoutIgnored(job) == job

\* the queue kills a job whose wall-clock timeout (the timeout handed to
\* Job.create) has expired: the job ends with an exception wherever it was
TimeoutKills(job) ==
    [job EXCEPT !.status = "raised", !.errs = Append(@, "JobTimeoutException"),
                !.latest = 0, !.hexsha = 0, !.blob = NoBlob]

\* the timeout of a job a worker is running expires
JobTimeout(j) ==
    /\ j \in DOMAIN jobs
    /\ jobs[j].status \in {"started", "transfer"}
    /\ jobs' = [jobs EXCEPT ![j] = TimeoutKills(jobs[j])]
    /\ UNCHANGED <<tasks, now, launch_log>>
    /\ UNCHANGED_data

\* --------------------------------------------------------- specifications
Handles == Studies \X {"source", "raw", "derived"}

\* the Cfmm2tarOutput rows and the Source dataset after study 1 acquired the
\* uids 1..n
Acquired(n) == {[id |-> u, study_id |-> 1, uid |-> u, datalad_dataset |-> FALSE] : u \in 1..n}

AcquiredFiles(n) == {[study_id |-> 1, uid |-> u] : u \in 1..n}

InitQueue ==
    /\ tasks = <<>>
    /\ jobs = <<>>
    /\ now = 1
    /\ launch_log = {}

InitStore(n) ==
    /\ dataset_content = [s \in Studies |-> 0]
    /\ cfmm2tar_outputs = Acquired(n)
    /\ source_dataset = AcquiredFiles(n)
    /\ tar2bids_outputs = {}
    /\ datalad_datasets = IF n = 0 THEN {} ELSE {<<1, "source">>}
    /\ dataset_commits = [h \in Handles |-> <<>>]
    /\ dataset_archives = <<>>
    /\ archive_remote = <<>>
    /\ arch_hist = [overlap |-> {}, noop |-> {}]
    /\ organized = NoQuery

\* the portal in service: studies are registered, the server holds one
\* record per uid (each answers the description query of study 1), and
\* study 1 has either nothing yet or one acquisition that is not converted
Init ==
    /\ InitQueue
    /\ \E n \in 0..1 : InitStore(n)
    /\ study_active \in [Studies -> BOOLEAN]
    /\ study_custom_ria = [s \in Studies |-> FALSE]
    /\ remote_index = {[uid |-> u, study |-> 1, name_ok |-> TRUE] : u \in Uids}
    /\ explicit_patients = {}

\* the Task table and the queue: the command line triggers, the queued
\* checks and the marking of Tasks
Next ==
    \/ run_all_cfmm2tar
    \/ run_all_tar2bids
    \/ run_all_archive
    \/ \E j \in JobIds : StartJob(j)
    \/ \E j \in JobIds : check_tar_files(j)
    \/ \E j \in JobIds : find_unprocessed_tar_files(j)
    \/ \E j \in JobIds : log_success(j)
    \/ \E j \in JobIds : log_failure(j, <<"error">>)

Spec == Init /\ [][Next]_vars

\* ------------------------------------------------------------ Task claims
\* C1: for every (study, stage name) pair at most one Task is not complete
C1_AtMostOneInFlight ==
    \A s \in Studies : \A name \in TASKS :
        Cardinality(TasksInProgress(tasks, s, name)) <= 1

\* C2: a launch_task call fails with the duplicate-in-flight error, creating
\* no Task row and no job, exactly when an incomplete Task of the same
\* (study, stage) existed at the call
C2_DuplicateRejected ==
    \A c \in launch_log : c.dup <=> c.outcome = "DuplicateInFlightError"

\* C3: once a Task is complete, no step changes its complete / success
\* outcome, its end_time or its error
C3_TerminalOnceSet ==
    [][\A j \in DOMAIN tasks :
         tasks[j].complete =>
            /\ j \in DOMAIN tasks'
            /\ tasks'[j].complete = tasks[j].complete
            /\ tasks'[j].success = tasks[j].success
            /\ tasks'[j].end_time = tasks[j].end_time
            /\ tasks'[j].error = tasks[j].error]_vars

\* ---------------------------------------------------- reconciliation runs
\* what the server holds for one uid: nothing, a record of the study's
\* description (patient name matching patient_name_re or not), or a record
\* of another description
IndexOptions(u) ==
    {{}, {[uid |-> u, study |-> 1, name_ok |-> TRUE]},
     {[uid |-> u, study |-> 1, name_ok |-> FALSE]},
     {[uid |-> u, study |-> NoStudy, name_ok |-> TRUE]}}

\* the ExplicitPatient row of one uid: none, included or excluded
PatientOptions(u) ==
    {{}, {[study_id |-> 1, uid |-> u, included |-> TRUE]},
     {[study_id |-> 1, uid |-> u, included |-> FALSE]}}

\* explicit_scans: lists of at most two scans
ExplicitLists == {<<>>} \cup {<<u>> : u \in Uids} \cup {q \in Uids \X Uids : q[1] # q[2]}

StartedJob(func, study, args, has_explicit) ==
    [NewJob(func, study, args, has_explicit) EXCEPT !.status = "started"]

\* a worker has taken a check_tar_files(study 1, explicit_scans) call
InitRecon ==
    /\ tasks = <<>>
    /\ now = 1
    /\ launch_log = {}
    /\ \E has_explicit \in BOOLEAN :
         \E scans \in IF has_explicit THEN ExplicitLists ELSE {<<>>} :
            jobs = (1 :> StartedJob("check_tar_files", 1, scans, has_explicit))
    /\ study_active = [s \in Studies |-> TRUE]
    /\ study_custom_ria = [s \in Studies |-> FALSE]
    /\ \E idx \in [Uids -> UNION {IndexOptions(u) : u \in Uids}] :
         /\ \A u \in Uids : idx[u] \in IndexOptions(u)
         /\ remote_index = UNION {idx[u] : u \in Uids}
    /\ \E pat \in [Uids -> UNION {PatientOptions(u) : u \in Uids}] :
         /\ \A u \in Uids : pat[u] \in PatientOptions(u)
         /\ explicit_patients = UNION {pat[u] : u \in Uids}
    /\ \E held \in SUBSET Uids :
         /\ cfmm2tar_outputs =
               {[id |-> u, study_id |-> 1, uid |-> u, datalad_dataset |-> FALSE] : u \in held}
         /\ source_dataset = {[study_id |-> 1, uid |-> u] : u \in held}
         /\ datalad_datasets = IF held = {} THEN {} ELSE {<<1, "source">>}
    /\ dataset_content = [s \in Studies |-> 0]
    /\ tar2bids_outputs = {}
    /\ dataset_commits = [h \in Handles |-> <<>>]
    /\ dataset_archives = <<>>
    /\ archive_remote = <<>>
    /\ arch_hist = [overlap |-> {}, noop |-> {}]
    /\ organized = NoQuery

NextRecon == \E j \in JobIds : check_tar_files(j)

SpecRecon == InitRecon /\ [][NextRecon]_vars

\* C4: when check_tar_files has returned, the uids of the targets it handed
\* to the acquisition batch are exactly (Q union I) minus E minus A, with Q
\* the uids answering the study's query, I the fetchable uids included by
\* an ExplicitPatient row, E the uids excluded by one and A the uids of the
\* study's Cfmm2tarOutput rows; explicit scans or not
C4_TargetsAreReconciled ==
    jobs[1].func = "check_tar_files" /\ jobs[1].status = "returned" =>
        LET study == jobs[1].study
            Q == {r.uid : r \in {x \in remote_index : x.study = study /\ x.name_ok}}
            I == {e.uid : e \in {x \in explicit_patients :
                                    /\ x.study_id = study /\ x.included
                                    /\ \E r \in remote_index : r.uid = x.uid}}
            E == {e.uid : e \in {x \in explicit_patients :
                                    x.study_id = study /\ ~x.included}}
            A == ExistingUids(study)
            targets == IF 2 \in DOMAIN jobs THEN SeqToSet(jobs[2].args) ELSE {}
        IN targets = ((Q \cup I) \ E) \ A

\* ------------------------------------------------------ acquisition batches
\* a worker has taken run_cfmm2tar(study 1, targets, log_record) whose Task
\* row exists; the targets are new to the study
InitAcq ==
    /\ tasks = (1 :> NewTask("run_cfmm2tar", 1, 1))
    /\ now = 1
    /\ launch_log = {}
    /\ \E targets \in ExplicitLists : \E logger \in {"task", "null"} :
         /\ jobs = (1 :> [StartedJob("run_cfmm2tar", 1, targets, FALSE)
                             EXCEPT !.logger = logger])
         /\ \E held \in SUBSET (Uids \ SeqToSet(targets)) :
              /\ cfmm2tar_outputs =
                    {[id |-> u, study_id |-> 1, uid |-> u, datalad_dataset |-> FALSE] :
                        u \in held}
              /\ source_dataset = {[study_id |-> 1, uid |-> u] : u \in held}
              /\ datalad_datasets = IF held = {} THEN {} ELSE {<<1, "source">>}
    /\ study_active = [s \in Studies |-> TRUE]
    /\ study_custom_ria = [s \in Studies |-> FALSE]
    /\ remote_index = {[uid |-> u, study |-> 1, name_ok |-> TRUE] : u \in Uids}
    /\ explicit_patients = {}
    /\ dataset_content = [s \in Studies |-> 0]
    /\ tar2bids_outputs = {}
    /\ dataset_commits = [h \in Handles |-> <<>>]
    /\ dataset_archives = <<>>
    /\ archive_remote = <<>>
    /\ arch_hist = [overlap |-> {}, noop |-> {}]
    /\ organized = NoQuery

NextAcq ==
    \/ \E j \in JobIds : run_cfmm2tar_empty(j)
    \/ \E j \in JobIds : \E run \in ToolRuns : run_cfmm2tar(j, run)
    \/ \E j \in JobIds : WorkerFinish(j)

SpecAcq == InitAcq /\ [][NextAcq]_vars

AcqJobs == {j \in DOMAIN jobs : jobs[j].func = "run_cfmm2tar"}

AllTimeouts(h, n) == \A k \in 1..n : h[k] = "Cfmm2tarTimeoutError"

\* C5: a target sees at most 5 runs of the tool, every run but the last one
\* ended in the timeout error, and the runs stop at the first outcome that
\* is not a timeout (or at the 5th run): a target the batch has left has its
\* outcome, and a last run that succeeded means the retry loop returned
C5_RetryOnlyAfterTimeout ==
    \A j \in AcqJobs : \A i \in 1..Len(jobs[j].args) :
        LET h == jobs[j].hist[i]
            n == Len(h)
        IN /\ n <= 5
           /\ n >= 1 => AllTimeouts(h, n - 1)
           /\ jobs[j].res[i] # "" => n >= 1 /\ (h[n] # "Cfmm2tarTimeoutError" \/ n = 5)
           /\ jobs[j].res[i] = "" /\ n >= 1 => h[n] = "Cfmm2tarTimeoutError" /\ n < 5
           /\ i < jobs[j].idx => jobs[j].res[i] # ""
           /\ n >= 1 /\ h[n] = "ok" =>
                 jobs[j].res[i] \in {"recorded", "Cfmm2tarError", "ValueError"}
           /\ jobs[j].idx = i /\ jobs[j].status = "started" /\ jobs[j].res[i] = "" =>
                 jobs[j].attempt = n + 1

\* timeouts on the runs 1-4, then a success on run 5 that is recorded
C5_Witness ==
    \E j \in AcqJobs : \E i \in 1..Len(jobs[j].args) :
        /\ Len(jobs[j].hist[i]) = 5
        /\ AllTimeouts(jobs[j].hist[i], 4)
        /\ jobs[j].hist[i][5] = "ok"
        /\ i \in jobs[j].done

\* C6: after 5 timeouts on a target the timeout error has left the retry
\* loop (and the batch), and the target has no Cfmm2tarOutput row and no
\* file committed to the Source dataset
C6_TimeoutsExhausted ==
    \A j \in AcqJobs : \A i \in 1..Len(jobs[j].args) :
        Len(jobs[j].hist[i]) = 5 /\ AllTimeouts(jobs[j].hist[i], 5) =>
            /\ jobs[j].res[i] = "Cfmm2tarTimeoutError"
            /\ jobs[j].status \in {"raised", "reported"}
            /\ jobs[j].idx = i
            /\ i \notin jobs[j].done
            /\ ~\E o \in cfmm2tar_outputs :
                    o.study_id = jobs[j].study /\ o.uid = jobs[j].args[i]
            /\ [study_id |-> jobs[j].study, uid |-> jobs[j].args[i]] \notin source_dataset

C6_Witness ==
    \E j \in AcqJobs : \E i \in 1..Len(jobs[j].args) :
        /\ Len(jobs[j].hist[i]) = 5
        /\ AllTimeouts(jobs[j].hist[i], 5)
        /\ jobs[j].status = "raised"

\* C7: a Cfmm2tarError on a target ends that target only: the batch goes on
\* to the next target (the batch is left early only by a timeout error or a
\* ValueError), a recorded target has its Cfmm2tarOutput row, and each
\* failure message went to the batch's log_record (to the Task's log when
\* the log_record is its TaskLogger)
C7_FailureAbortsTargetOnly ==
    \A j \in AcqJobs :
        LET job == jobs[j]
            failed == {i \in 1..Len(job.args) : job.res[i] = "Cfmm2tarError"}
        IN /\ \A i \in failed :
                /\ i < job.idx
                /\ i < Len(job.args) /\ job.status \in {"returned", "raised", "reported"}
                      => job.hist[i + 1] # <<>>
           /\ job.status = "returned" => \A i \in 1..Len(job.args) : job.res[i] # ""
           /\ job.status = "raised" =>
                 job.res[job.idx] \in {"Cfmm2tarTimeoutError", "ValueError"}
           /\ \A i \in 1..Len(job.args) :
                 job.res[i] = "recorded" =>
                    /\ i \in job.done
                    /\ \E o \in cfmm2tar_outputs :
                          o.study_id = job.study /\ o.uid = job.args[i]
           /\ Len(job.errs) = Cardinality(failed)
           /\ job.logger = "task" /\ j \in DOMAIN tasks => tasks[j].log = job.errs

\* the tool fails on the first target, the second target is recorded
C7_Witness ==
    \E j \in AcqJobs :
        /\ Len(jobs[j].args) = 2
        /\ jobs[j].hist[1] = <<"Cfmm2tarError">>
        /\ jobs[j].res[2] = "recorded"
        /\ j \in DOMAIN tasks
        /\ Len(tasks[j].log) = 1

C8_WitnessEmpty ==
    \E j \in AcqJobs \cap DOMAIN tasks :
        /\ jobs[j].status = "reported"
        /\ jobs[j].args = <<>>
        /\ tasks[j].success

\* ------------------------------------------------------- conversion batches
\* the lists of distinct tar file ids among 1..n
RECURSIVE TarLists(_)
TarLists(ids) ==
    {<<>>} \cup UNION {{<<i>> \o q : q \in TarLists(ids \ {i})} : i \in ids}

\* study 1 holds n acquisitions, none converted, and a worker has taken
\* run_tar2bids(1, tar_file_ids, logger) whose Task row exists
InitConv ==
    /\ tasks = (1 :> NewTask("run_tar2bids", 1, 1))
    /\ now = 1
    /\ launch_log = {}
    /\ \E n \in 1..MaxBatch :
         /\ cfmm2tar_outputs = Acquired(n)
         /\ source_dataset = AcquiredFiles(n)
         /\ \E tar_file_ids \in TarLists(1..n) : \E logger \in {"task", "null"} :
              jobs = (1 :> [StartedJob("run_tar2bids", 1, tar_file_ids, FALSE)
                               EXCEPT !.logger = logger])
    /\ datalad_datasets = {<<1, "source">>}
    /\ study_active = [s \in Studies |-> TRUE]
    /\ study_custom_ria = [s \in Studies |-> FALSE]
    /\ remote_index = {[uid |-> u, study |-> 1, name_ok |-> TRUE] : u \in Uids}
    /\ explicit_patients = {}
    /\ dataset_content = [s \in Studies |-> 0]
    /\ tar2bids_outputs = {}
    /\ dataset_commits = [h \in Handles |-> <<>>]
    /\ dataset_archives = <<>>
    /\ archive_remote = <<>>
    /\ arch_hist = [overlap |-> {}, noop |-> {}]
    /\ organized = NoQuery

NextConv ==
    \/ \E j \in JobIds : run_tar2bids_empty(j)
    \/ \E j \in JobIds : \E ok \in BOOLEAN : run_tar2bids(j, ok)
    \/ \E j \in JobIds : WorkerFinish(j)

SpecConv == InitConv /\ [][NextConv]_vars

ConvJobs == {j \in DOMAIN jobs : jobs[j].func = "run_tar2bids"}

\* C9: once tar2bids failed on a tar file of a batch, the Tar2bidsError has
\* left run_tar2bids at that tar file: no later tar file of the batch is
\* converted or linked to the Raw dataset, the batch has no Tar2bidsOutput
\* row, its Task is Failed once the job is reported, and the Raw dataset
\* keeps one commit per tar file merged before the failure
C9_ConversionFailsFast ==
    \A j \in ConvJobs : \A i \in 1..Len(jobs[j].args) :
        jobs[j].res[i] = "Tar2bidsError" =>
            LET job == jobs[j]
                raw == dataset_commits[<<job.study, "raw">>]
            IN /\ job.status \in {"raised", "reported"}
               /\ job.idx = i
               /\ \A k \in (i + 1)..Len(job.args) :
                     /\ job.hist[k] = <<>>
                     /\ \A o \in cfmm2tar_outputs :
                           o.id = job.args[k] => ~o.datalad_dataset
               /\ ~\E t \in tar2bids_outputs : t.study_id = job.study
               /\ j \in DOMAIN tasks /\ job.status = "reported" =>
                     tasks[j].complete /\ ~tasks[j].success
               /\ j \in DOMAIN tasks /\ job.status = "raised" => ~tasks[j].complete
               /\ Len(raw) = i - 1
               /\ \A k \in 1..(i - 1) :
                     /\ raw[k].item = job.args[k]
                     /\ \E o \in cfmm2tar_outputs :
                           o.id = job.args[k] /\ o.datalad_dataset
               /\ dataset_content[job.study] = i - 1

\* a batch of 3 tar files whose 2nd failed has been reported
C9_Witness ==
    \E j \in ConvJobs :
        /\ Len(jobs[j].args) = 3
        /\ jobs[j].res[2] = "Tar2bidsError"
        /\ jobs[j].status = "reported"
        /\ Len(dataset_commits[<<jobs[j].study, "raw">>]) = 1

\* ----------------------------------------------------------- archival runs
\* the DatasetArchive row and the copied file of a Derived dataset that was
\* archived when it had no commit yet
FirstArchive(handle) ==
    [row |-> [dataset |-> handle, parent_id |-> 0, dataset_hexsha |-> 0,
              commit_datetime |-> 0],
     copy |-> [dataset |-> handle, hexsha |-> 0, kind |-> "full", paths |-> {}]]

\* study 1 has two acquisitions and a conversion batch under way; its
\* Derived dataset is either not there yet or was archived once
InitArch ==
    /\ tasks = (1 :> NewTask("run_tar2bids", 1, 1))
    /\ jobs = (1 :> StartedJob("run_tar2bids", 1, <<1, 2>>, FALSE))
    /\ now = 1
    /\ launch_log = {}
    /\ cfmm2tar_outputs = Acquired(2)
    /\ source_dataset = AcquiredFiles(2)
    /\ \E archived \in BOOLEAN :
          IF archived
          THEN /\ datalad_datasets = {<<1, "source">>, <<1, "derived">>}
               /\ dataset_archives = <<FirstArchive(<<1, "derived">>).row>>
               /\ archive_remote = <<FirstArchive(<<1, "derived">>).copy>>
          ELSE /\ datalad_datasets = {<<1, "source">>}
               /\ dataset_archives = <<>>
               /\ archive_remote = <<>>
    /\ study_active = [s \in Studies |-> s = 1]
    /\ study_custom_ria = [s \in Studies |-> FALSE]
    /\ remote_index = {[uid |-> u, study |-> 1, name_ok |-> TRUE] : u \in Uids}
    /\ explicit_patients = {}
    /\ dataset_content = [s \in Studies |-> 0]
    /\ tar2bids_outputs = {}
    /\ dataset_commits = [h \in Handles |-> <<>>]
    /\ arch_hist = [overlap |-> {}, noop |-> {}]
    /\ organized = NoQuery

NextArch ==
    \/ \E j \in JobIds : run_tar2bids(j, TRUE)
    \/ \E s \in Studies : gradcorrect_study(s)
    \/ run_all_archive
    \/ \E s \in Studies : enqueue_archive_derivative_data(s)
    \/ \E j \in JobIds : StartJob(j)
    \/ \E j \in JobIds : \E entries \in DiffResults : archive_begin(j, entries)
    \/ \E j \in JobIds : \E ok \in BOOLEAN : archive_transfer(j, ok)

SpecArch == InitArch /\ [][NextArch]_vars

\* C10: on a handle whose archival runs did not overlap, a version of the
\* dataset has at most one DatasetArchive row and was copied to the cold
\* storage at most once, and a run in transfer is the first for its
\* version: a run that finds the version archived adds and copies nothing
C10_ArchiveIdempotent ==
    \A handle \in Handles \ arch_hist.overlap :
        /\ \A a, b \in ArchivesOf(handle) :
              dataset_archives[a].dataset_hexsha = dataset_archives[b].dataset_hexsha
                 => a = b
        /\ \A a, b \in 1..Len(archive_remote) :
              /\ archive_remote[a].dataset = handle
              /\ archive_remote[b].dataset = handle
              /\ archive_remote[a].hexsha = archive_remote[b].hexsha
              => a = b
        /\ \A j \in InTransfer(handle) :
              ~\E a \in ArchivesOf(handle) :
                    dataset_archives[a].dataset_hexsha = jobs[j].hexsha
        /\ handle \in arch_hist.noop => ArchivesOf(handle) # {}

\* a run found the Raw dataset of study 1, at its second version, archived
\* and returned; the handle has one row per archived version
C10_Witness ==
    /\ <<1, "raw">> \in arch_hist.noop
    /\ <<1, "raw">> \notin arch_hist.overlap
    /\ Hexsha(1, "raw") = 2
    /\ \E a \in ArchivesOf(<<1, "raw">>) : dataset_archives[a].dataset_hexsha = 2

\* the handle an archival job works on
HandleOf(job) == <<job.study, ArchiveType(job.func)>>

\* C11: a run that finds no DatasetArchive row of its handle packages the
\* whole dataset, at the version it cloned, and once the copy succeeded adds
\* a row with no parent and that version's hexsha, and the copied file is
\* the whole-dataset archive
C11_FirstRunArchivesAll ==
    [][\A j \in DOMAIN jobs :
          /\ ( /\ jobs[j].status = "started"
               /\ jobs'[j].status = "transfer"
               /\ ArchivesOf(HandleOf(jobs[j])) = {} )
             => /\ jobs'[j].blob.kind = "full"
                /\ jobs'[j].latest = 0
                /\ jobs'[j].hexsha = Hexsha(jobs[j].study, ArchiveType(jobs[j].func))
          /\ ( /\ jobs[j].status = "transfer"
               /\ jobs'[j].status = "returned"
               /\ jobs[j].latest = 0 )
             => /\ dataset_archives' =
                      Append(dataset_archives,
                             [dataset |-> HandleOf(jobs[j]), parent_id |-> 0,
                              dataset_hexsha |-> jobs[j].hexsha,
                              commit_datetime |->
                                  CommitDate(HandleOf(jobs[j]), jobs[j].hexsha)])
                /\ archive_remote' =
                      Append(archive_remote,
                             [dataset |-> HandleOf(jobs[j]), hexsha |-> jobs[j].hexsha,
                              kind |-> "full", paths |-> {}])
      ]_vars

\* the first run on the Raw dataset of study 1, at its second version, has
\* copied the whole dataset and added the row without parent
C11_Witness ==
    /\ Len(dataset_archives) = 1
    /\ dataset_archives[1] = [dataset |-> <<1, "raw">>, parent_id |-> 0,
                              dataset_hexsha |-> 2, commit_datetime |-> 2]
    /\ archive_remote = <<[dataset |-> <<1, "raw">>, hexsha |-> 2,
                           kind |-> "full", paths |-> {}]>>

\* the snapshot(s) of a handle of the greatest commit date
Newest(handle) ==
    {l \in ArchivesOf(handle) :
        \A k \in ArchivesOf(handle) :
            dataset_archives[k].commit_datetime <= dataset_archives[l].commit_datetime}

\* C12: a run that finds DatasetArchive rows of its handle, the one of the
\* greatest commit date at another hexsha than its clone, diffs that row's
\* hexsha against the clone's, packages exactly the reported paths that are
\* added or modified and a file or a symlink, and once the copy succeeded
\* adds a row whose parent is that latest row
C12_LaterRunArchivesChanges ==
    [][\A j \in DOMAIN jobs :
          /\ ( /\ jobs[j].status = "started"
               /\ jobs'[j].status = "transfer"
               /\ ArchivesOf(HandleOf(jobs[j])) # {} )
             => /\ jobs'[j].latest \in Newest(HandleOf(jobs[j]))
                /\ jobs'[j].hexsha = Hexsha(jobs[j].study, ArchiveType(jobs[j].func))
                /\ jobs'[j].hexsha # dataset_archives[jobs'[j].latest].dataset_hexsha
                /\ jobs'[j].blob.kind = "partial"
                /\ jobs'[j].blob.diffed[1] =
                       dataset_archives[jobs'[j].latest].dataset_hexsha
                /\ jobs'[j].blob.diffed[2] = jobs'[j].hexsha
                /\ \A e \in jobs'[j].blob.diffed[3] :
                      e.path \in jobs'[j].blob.paths
                         <=> /\ e.state \in {"added", "modified"}
                             /\ e.type \in {"file", "symlink"}
                /\ \A p \in jobs'[j].blob.paths :
                      \E e \in jobs'[j].blob.diffed[3] : e.path = p
          /\ ( /\ jobs[j].status = "transfer"
               /\ jobs'[j].status = "returned"
               /\ jobs[j].latest # 0 )
             => /\ dataset_archives' =
                      Append(dataset_archives,
                             [dataset |-> HandleOf(jobs[j]),
                              parent_id |-> jobs[j].latest,
                              dataset_hexsha |-> jobs[j].hexsha,
                              commit_datetime |->
                                  CommitDate(HandleOf(jobs[j]), jobs[j].hexsha)])
                /\ archive_remote' =
                      Append(archive_remote,
                             [dataset |-> HandleOf(jobs[j]), hexsha |-> jobs[j].hexsha,
                              kind |-> "partial", paths |-> jobs[j].blob.paths])
      ]_vars

\* the Derived dataset of study 1 has three rows in a chain, and the third
\* run, whose diff named a modified file next to deleted paths and
\* directories, copied an archive of that file alone
C12_Witness ==
    /\ Len(dataset_archives) = 3
    /\ \A i \in 1..3 : /\ dataset_archives[i].dataset = <<1, "derived">>
                       /\ dataset_archives[i].parent_id = i - 1
                       /\ archive_remote[i].hexsha = dataset_archives[i].dataset_hexsha
    /\ archive_remote[3].kind = "partial"
    /\ archive_remote[3].paths = {"f1"}

\* C13: a DatasetArchive row is added only by the step in which the copy of
\* its archive file to the cold storage succeeded, and a run whose
\* make_remote_dir or copy_file failed leaves the rows, and so the latest
\* row that the next run reads, as they were
C13_RowOnlyAfterTransfer ==
    [][/\ dataset_archives' # dataset_archives
          => \E j \in DOMAIN jobs :
                /\ jobs[j].status = "transfer"
                /\ jobs'[j].status = "returned"
                /\ Len(archive_remote') = Len(archive_remote) + 1
                /\ archive_remote'[Len(archive_remote')].dataset = HandleOf(jobs[j])
                /\ archive_remote'[Len(archive_remote')].hexsha = jobs[j].hexsha
                /\ dataset_archives' = Append(dataset_archives, ArchiveRow(jobs[j]))
       /\ \A j \in DOMAIN jobs :
             (jobs[j].status = "transfer" /\ jobs'[j].status = "raised")
                => /\ dataset_archives' = dataset_archives
                   /\ archive_remote' = archive_remote
                   /\ \A handle \in Handles :
                         LatestArchive(handle)' = LatestArchive(handle)
      ]_vars

\* on the Derived dataset of study 1, archived once, a run failed in the
\* transfer and the next run, in transfer, has diffed against the same row
C13_Witness ==
    \E j, k \in DOMAIN jobs :
        /\ jobs[j].func = "archive_derivative_data"
        /\ jobs[j].status = "raised"
        /\ jobs[k].func = "archive_derivative_data"
        /\ jobs[k].status = "transfer"
        /\ jobs[k].latest = 1
        /\ ArchivesOf(<<1, "derived">>) = {1}
        /\ <<1, "derived">> \notin arch_hist.overlap

\* C14: the DatasetArchive rows of one handle form one chain: at most one
\* has no parent, no two have the same parent, and every parent is a row of
\* the same handle
C14_SingleChain ==
    \A handle \in Handles :
        /\ \A a, b \in ArchivesOf(handle) :
              dataset_archives[a].parent_id = dataset_archives[b].parent_id => a = b
        /\ \A a \in ArchivesOf(handle) :
              dataset_archives[a].parent_id # 0
                 => dataset_archives[a].parent_id \in ArchivesOf(handle)

\* C15: no two tasks are at once between the checkout and the commit of one
\* dataset handle: at most one archival run holds a clone of a handle, and
\* no stage commits to a handle of which an archival run holds a clone (a
\* step of run_tar2bids or gradcorrect_study is a whole checkout-to-commit
\* sequence)
C15_HandleHeldExclusively ==
    [][\A handle \in Handles :
          /\ Cardinality(InTransfer(handle)') <= 1
          /\ dataset_commits'[handle] # dataset_commits[handle]
                => InTransfer(handle) = {}
      ]_vars

\* target lists that check_tar_files hands to run_cfmm2tar when the scans
\* it was given name one uid twice: find_studies_to_download keeps the list
\* as it is, less the uids that have a row
RepeatedLists == {<<u, u>> : u \in Uids}

\* study 1 has no acquisition yet.  Either one batch is started whose
\* target list names a uid twice, or two batches are started whose target
\* lists check_tar_files computed before either recorded anything
InitAcqPair ==
    /\ now = 1
    /\ launch_log = {}
    /\ \E pair \in BOOLEAN :
         IF pair
         THEN \E t1, t2 \in {<<u>> : u \in Uids} :
                 /\ jobs = (1 :> StartedJob("run_cfmm2tar", 1, t1, FALSE)) @@
                           (2 :> StartedJob("run_cfmm2tar", 1, t2, FALSE))
                 /\ tasks = (1 :> NewTask("run_cfmm2tar", 1, 1)) @@
                            (2 :> NewTask("run_cfmm2tar", 1, 1))
         ELSE \E targets \in RepeatedLists :
                 /\ jobs = (1 :> StartedJob("run_cfmm2tar", 1, targets, FALSE))
                 /\ tasks = (1 :> NewTask("run_cfmm2tar", 1, 1))
    /\ cfmm2tar_outputs = {}
    /\ source_dataset = {}
    /\ datalad_datasets = {}
    /\ study_active = [s \in Studies |-> TRUE]
    /\ study_custom_ria = [s \in Studies |-> FALSE]
    /\ remote_index = {[uid |-> u, study |-> 1, name_ok |-> TRUE] : u \in Uids}
    /\ explicit_patients = {}
    /\ dataset_content = [s \in Studies |-> 0]
    /\ tar2bids_outputs = {}
    /\ dataset_commits = [h \in Handles |-> <<>>]
    /\ dataset_archives = <<>>
    /\ archive_remote = <<>>
    /\ arch_hist = [overlap |-> {}, noop |-> {}]
    /\ organized = NoQuery

NextAcqPair ==
    \/ \E j \in JobIds : \E run \in ToolRuns : run_cfmm2tar(j, run)
    \/ \E j \in JobIds : WorkerFinish(j)

SpecAcqPair == InitAcqPair /\ [][NextAcqPair]_vars

\* C16: no two Cfmm2tarOutput rows of one study have the same uid
C16_UidOncePerStudy ==
    \A a, b \in cfmm2tar_outputs :
        a.study_id = b.study_id /\ a.uid = b.uid => a = b

\* ------------------------------------------------------------ task timeouts
\* the archive tasks that a given clock can still see end
MaxTasks == IF MaxJobs < MaxClock - 1 THEN MaxJobs ELSE MaxClock - 1

\* run_all_archive has launched archive_raw_data tasks, more than one per
\* study possibly; study 1 has one acquisition, converted, the other studies
\* have no content yet
InitLive ==
    /\ now = 1
    /\ launch_log = {}
    /\ \E n \in 1..MaxTasks : \E of \in [1..n -> Studies] :
         /\ jobs = [j \in 1..n |-> NewJob("archive_raw_data", of[j], <<>>, FALSE)]
         /\ tasks = [j \in 1..n |-> NewTask("archive_raw_data", of[j], 1)]
    /\ cfmm2tar_outputs = {[id |-> 1, study_id |-> 1, uid |-> 1, datalad_dataset |-> TRUE]}
    /\ source_dataset = AcquiredFiles(1)
    /\ datalad_datasets = {<<1, "source">>, <<1, "raw">>}
    /\ study_active = [s \in Studies |-> TRUE]
    /\ study_custom_ria = [s \in Studies |-> FALSE]
    /\ remote_index = {[uid |-> u, study |-> 1, name_ok |-> TRUE] : u \in Uids}
    /\ explicit_patients = {}
    /\ dataset_content = [s \in Studies |-> IF s = 1 THEN 1 ELSE 0]
    /\ tar2bids_outputs = {[id |-> 1, study_id |-> 1, cfmm2tar_outputs |-> {1}]}
    /\ dataset_commits =
          [h \in Handles |-> IF h = <<1, "raw">>
                             THEN <<[ts |-> 1, by |-> "tar2bids", item |-> 1]>>
                             ELSE <<>>]
    /\ dataset_archives = <<>>
    /\ archive_remote = <<>>
    /\ arch_hist = [overlap |-> {}, noop |-> {}]
    /\ organized = NoQuery

NextLive ==
    \/ \E j \in JobIds : StartJob(j)
    \/ \E j \in JobIds : \E entries \in DiffResults : archive_begin(j, entries)
    \/ \E j \in JobIds : \E ok \in BOOLEAN : archive_transfer(j, ok)
    \/ \E j \in JobIds : JobTimeout(j)
    \/ \E j \in JobIds : WorkerFinish(j)

\* a worker takes every queued job and reports every job that ended; the
\* queue kills a job that does not end by itself.  The steps of the job's
\* function may stall for ever: they are calls that block
SpecLive ==
    /\ InitLive
    /\ [][NextLive]_vars
    /\ \A j \in JobIds : /\ WF_vars(StartJob(j))
                         /\ WF_vars(JobTimeout(j))
                         /\ WF_vars(WorkerFinish(j))

C18_ExactlyOneTarAndUid ==
    \A j \in AcqJobs : \A i \in 1..Len(jobs[j].args) :
        LET h == jobs[j].hist[i]
            files == jobs[j].seen[i]
        IN /\ jobs[j].res[i] = "recorded" => files.tars = 1 /\ files.uids = 1
           /\ ( /\ jobs[j].res[i] # ""
                /\ h[Len(h)] = "ok"
                /\ (files.tars # 1 \/ files.uids # 1) )
              => /\ jobs[j].res[i] = "Cfmm2tarError"
                 /\ i \notin jobs[j].done

\* C19: a Cfmm2tarOutput row is never changed after it was added: in every
\* step a row that exists keeps every field
C19_AcquisitionImmutable ==
    [][\A o \in cfmm2tar_outputs : \A p \in cfmm2tar_outputs' :
          p.id = o.id => p = o
      ]_vars

\* C20: in a conversion batch the study's dataset_content is written, and
\* the Tar2bidsOutput row is added, only by the step after which every tar
\* file of the batch is converted, and a batch in which tar2bids failed
\* leaves dataset_content as it was when the batch started
C20_ContentAfterWholeBatch ==
    [][\A j \in ConvJobs :
          LET job == jobs[j]
              whole == jobs'[j].done = 1..Len(job.args)
          IN /\ dataset_content'[job.study] # dataset_content[job.study] => whole
             /\ tar2bids_outputs' # tar2bids_outputs
                   => /\ whole
                      /\ \E t \in tar2bids_outputs' \ tar2bids_outputs :
                            /\ t.study_id = job.study
                            /\ t.cfmm2tar_outputs = SeqToSet(job.args)
             /\ (\E i \in 1..Len(job.args) : jobs'[j].res[i] = "Tar2bidsError")
                   => dataset_content'[job.study] = 0
      ]_vars

\* C21: the list get_study_records returns for a study names each uid at
\* most once, and the record of a uid that an ExplicitPatient row includes
\* and the description query matches is the one get_inclusion_records
\* fetched
C21_RecordOncePerUid ==
    \A study \in Studies :
        LET recs == StudyRecords(study)
            included == {e.uid : e \in {x \in explicit_patients :
                                           x.study_id = study /\ x.included}}
            described == {r.uid : r \in {x \in remote_index :
                                            x.study = study /\ x.name_ok}}
        IN /\ \A i, k \in 1..Len(recs) :
                 recs[i].study_uid = recs[k].study_uid => i = k
           /\ \A i \in 1..Len(recs) :
                 recs[i].study_uid \in included \cap described
                    => recs[i].via = "inclusion"
           /\ \A u \in included \cap described :
                 \E i \in 1..Len(recs) : recs[i].study_uid = u

\* check_tar_files has reconciled study 1, of which a uid is included by an
\* ExplicitPatient row and answers the description query too, and has
\* handed that uid once to the acquisition batch
C21_Witness ==
    /\ jobs[1].func = "check_tar_files"
    /\ jobs[1].status = "returned"
    /\ ~jobs[1].has_explicit
    /\ \E u \in Uids :
          /\ [study_id |-> 1, uid |-> u, included |-> TRUE] \in explicit_patients
          /\ [uid |-> u, study |-> 1, name_ok |-> TRUE] \in remote_index
          /\ 2 \in DOMAIN jobs
          /\ Cardinality({i \in 1..Len(jobs[2].args) : jobs[2].args[i] = u}) = 1

\* -------------------------------------------------------- series list runs
\* SeriesNumber values the server answers: one, two, three and four digits
SeriesNumbers == {1, 2, 10, 99, 100, 999, 1000, 1001}

RECURSIVE ListsUpTo(_, _)
ListsUpTo(S, n) ==
    IF n = 0 THEN {<<>>}
    ELSE LET shorter == ListsUpTo(S, n - 1)
         IN shorter \cup {Append(l, x) : l \in {y \in shorter : Len(y) = n - 1}, x \in S}

\* the server has answered a query with the series of one record, in any
\* order
InitSeries ==
    /\ InitQueue
    /\ dataset_content = [s \in Studies |-> 0]
    /\ cfmm2tar_outputs = {}
    /\ source_dataset = {}
    /\ tar2bids_outputs = {}
    /\ datalad_datasets = {}
    /\ dataset_commits = [h \in Handles |-> <<>>]
    /\ dataset_archives = <<>>
    /\ archive_remote = <<>>
    /\ arch_hist = [overlap |-> {}, noop |-> {}]
    /\ study_active = [s \in Studies |-> TRUE]
    /\ study_custom_ria = [s \in Studies |-> FALSE]
    /\ remote_index = {}
    /\ explicit_patients = {}
    /\ \E responses \in ListsUpTo(SeriesNumbers, MaxSeries) :
          organized = [NoQuery EXCEPT !.responses = responses]

NextSeries == organize_flat_responses

SpecSeries == InitSeries /\ [][NextSeries]_vars

\* C22: the series list of a record is in non-decreasing order of the
\* series numbers, whatever their number of digits
C22_SeriesInNumericOrder ==
    organized.called =>
        \A i, k \in 1..Len(organized.series_metadata) :
            i <= k => organized.series_metadata[i] <= organized.series_metadata[k]

\* the archive files in the cold-storage directory of a handle
RemoteFiles(handle) ==
    {i \in 1..Len(archive_remote) : archive_remote[i].dataset = handle}

\* C23: the cold-storage directory of a handle holds the archive file of
\* the newest DatasetArchive row only: the files of earlier rows are gone
C23_OnlyNewestBlob ==
    \A handle \in Handles :
        /\ Cardinality(RemoteFiles(handle)) <= 1
        /\ \A i \in RemoteFiles(handle) :
              \A a \in ArchivesOf(handle) :
                  dataset_archives[a].commit_datetime <=
                      CommitDate(handle, archive_remote[i].hexsha)

\* a handle without content: the study has no dataset_content (Raw), the
\* dataset has no commit (Derived)
NoContentYet(job) ==
    IF job.func = "archive_raw_data"
    THEN dataset_content[job.study] = 0
    ELSE Hexsha(job.study, "derived") = 0

\* C24: the step of an archival run, Raw or Derived, on a study with a
\* custom RIA url or on a handle without content is a return that creates
\* no dataset, copies no archive file and adds no DatasetArchive row
C24_SkippedRunDoesNothing ==
    [][\A j \in DOMAIN jobs :
          ( /\ jobs[j].func \in {"archive_raw_data", "archive_derivative_data"}
            /\ jobs[j].status = "started"
            /\ jobs'[j] # jobs[j]
            /\ (study_custom_ria[jobs[j].study] \/ NoContentYet(jobs[j])) )
          => /\ jobs'[j].status = "returned"
             /\ datalad_datasets' = datalad_datasets
             /\ archive_remote' = archive_remote
             /\ dataset_archives' = dataset_archives
      ]_vars

\* ---------------------------------------------------------- correction runs
\* subjects of a Raw dataset
Subjects == {1, 2}

\* a worker has taken find_uncorrected_images(study); the study has its
\* Source dataset, and its Raw and Derived datasets or not
InitCorr ==
    /\ tasks = <<>>
    /\ now = 1
    /\ launch_log = {}
    /\ \E study \in Studies : \E types \in SUBSET {"raw", "derived"} :
         /\ jobs = (1 :> StartedJob("find_uncorrected_images", study, <<>>, FALSE))
         /\ datalad_datasets = {<<study, "source">>} \cup {<<study, t>> : t \in types}
    /\ cfmm2tar_outputs = {}
    /\ source_dataset = {}
    /\ study_active = [s \in Studies |-> TRUE]
    /\ study_custom_ria = [s \in Studies |-> FALSE]
    /\ remote_index = {}
    /\ explicit_patients = {}
    /\ dataset_content = [s \in Studies |-> 0]
    /\ tar2bids_outputs = {}
    /\ dataset_commits = [h \in Handles |-> <<>>]
    /\ dataset_archives = <<>>
    /\ archive_remote = <<>>
    /\ arch_hist = [overlap |-> {}, noop |-> {}]
    /\ organized = NoQuery

NextCorr ==
    \/ \E j \in JobIds : \E subjects \in SUBSET Subjects :
          find_uncorrected_images(j, subjects)
    \/ \E s \in Studies : gradcorrect_study(s)

SpecCorr == InitCorr /\ [][NextCorr]_vars

\* C25: the step of find_uncorrected_images for a study of the "type2"
\* scanner that has a Raw dataset and no Derived dataset adds a Task row
\* named gradcorrect_study for the study and a queued job without subject
\* labels, returns, and makes no commit to any dataset
C25_CheckLaunchesInitialRun ==
    [][\A j \in DOMAIN jobs :
          ( /\ jobs[j].func = "find_uncorrected_images"
            /\ jobs[j].status = "started"
            /\ jobs'[j] # jobs[j]
            /\ Scanner(jobs[j].study) = "type2"
            /\ <<jobs[j].study, "raw">> \in datalad_datasets
            /\ <<jobs[j].study, "derived">> \notin datalad_datasets )
          => /\ jobs'[j].status = "returned"
             /\ dataset_commits' = dataset_commits
             /\ \E k \in DOMAIN jobs' \ DOMAIN jobs :
                   /\ jobs'[k].func = "gradcorrect_study"
                   /\ jobs'[k].study = jobs[j].study
                   /\ jobs'[k].status = "queued"
                   /\ jobs'[k].args = <<>>
                   /\ k \in DOMAIN tasks'
                   /\ tasks'[k].name = "gradcorrect_study"
                   /\ tasks'[k].study_id = jobs[j].study
      ]_vars

\* C26: handling a target is all or nothing: every primary file committed
\* to the Source dataset has its Cfmm2tarOutput row, and a target whose
\* handling failed has left nothing in the Source dataset
C26_CommittedFilesAreRecorded ==
    /\ \A f \in source_dataset :
          \E o \in cfmm2tar_outputs : o.study_id = f.study_id /\ o.uid = f.uid
    /\ \A j \in AcqJobs : \A i \in 1..Len(jobs[j].args) :
          jobs[j].res[i] \notin {"", "recorded"}
              => [study_id |-> jobs[j].study, uid |-> jobs[j].args[i]]
                     \notin source_dataset

\* C27: a target whose 5 attempts all timed out does not end the batch:
\* once the batch is over, every later target has been attempted, as after
\* a Cfmm2tarError of a target
C27_TimeoutDoesNotStopBatch ==
    \A j \in AcqJobs : \A i \in 1..Len(jobs[j].args) :
        ( /\ Len(jobs[j].hist[i]) = 5
          /\ AllTimeouts(jobs[j].hist[i], 5)
          /\ jobs[j].status \in {"returned", "raised", "reported"} )
        => \A k \in (i + 1)..Len(jobs[j].args) : jobs[j].hist[k] # <<>>

\* C28: once a conversion batch is over, an acquisition of its study is
\* missing from the set find_unprocessed_tar_files computes only if a
\* Tar2bidsOutput row references it, and every acquisition of a batch in
\* which tar2bids failed is in that set again
C28_UnconvertedUntilReferenced ==
    \A j \in ConvJobs :
        jobs[j].status \in {"returned", "raised", "reported"} =>
            LET job == jobs[j]
                new_tar_file_ids == NewTarFileIds(job.study)
            IN /\ \A o \in cfmm2tar_outputs :
                     (o.study_id = job.study /\ o.id \notin new_tar_file_ids)
                        => \E t \in tar2bids_outputs : o.id \in t.cfmm2tar_outputs
               /\ (\E i \in 1..Len(job.args) : job.res[i] = "Tar2bidsError")
                     => SeqToSet(job.args) \subseteq new_tar_file_ids

\* --------------------------------------------------------- launched tasks
\* the portal in service as in Init, with a worker that has taken
\* find_uncorrected_images(1); study 1 has its Raw dataset or not
InitLaunch ==
    /\ tasks = <<>>
    /\ now = 1
    /\ launch_log = {}
    /\ jobs = (1 :> StartedJob("find_uncorrected_images", 1, <<>>, FALSE))
    /\ \E n \in 0..1 :
         /\ cfmm2tar_outputs = Acquired(n)
         /\ source_dataset = AcquiredFiles(n)
    /\ \E types \in SUBSET {"raw"} :
         datalad_datasets = {<<1, "source">>} \cup {<<1, t>> : t \in types}
    /\ study_active \in [Studies -> BOOLEAN]
    /\ study_custom_ria = [s \in Studies |-> FALSE]
    /\ remote_index = {[uid |-> u, study |-> 1, name_ok |-> TRUE] : u \in Uids}
    /\ explicit_patients = {}
    /\ dataset_content = [s \in Studies |-> 0]
    /\ tar2bids_outputs = {}
    /\ dataset_commits = [h \in Handles |-> <<>>]
    /\ dataset_archives = <<>>
    /\ archive_remote = <<>>
    /\ arch_hist = [overlap |-> {}, noop |-> {}]
    /\ organized = NoQuery

NextLaunch ==
    \/ Next
    \/ \E j \in JobIds : \E subjects \in SUBSET Subjects :
          find_uncorrected_images(j, subjects)

SpecLaunch == InitLaunch /\ [][NextLaunch]_vars

StageJobsHaveRows(js, ts) ==
    \A j \in DOMAIN js :
        (js[j].func \in TASKS /\ js[j].status \in {"queued", "started"})
            => /\ j \in DOMAIN ts
               /\ ts[j].name = js[j].func
               /\ ts[j].study_id = js[j].study

OverrideOptions(u) ==
    {{}} \cup {{[study_id |-> s, uid |-> u, included |-> b]} :
                  s \in Studies, b \in BOOLEAN}

\* a worker has taken check_tar_files(study) while the overrides are edited
InitExcl ==
    /\ tasks = <<>>
    /\ now = 1
    /\ launch_log = {}
    /\ \E study \in Studies :
         jobs = (1 :> StartedJob("check_tar_files", study, <<>>, FALSE))
    /\ study_active = [s \in Studies |-> TRUE]
    /\ study_custom_ria = [s \in Studies |-> FALSE]
    /\ remote_index = {[uid |-> u, study |-> 1, name_ok |-> TRUE] : u \in Uids}
    /\ \E pat \in [Uids -> UNION {OverrideOptions(u) : u \in Uids}] :
         /\ \A u \in Uids : pat[u] \in OverrideOptions(u)
         /\ explicit_patients = UNION {pat[u] : u \in Uids}
    /\ cfmm2tar_outputs = {}
    /\ source_dataset = {}
    /\ datalad_datasets = {}
    /\ dataset_content = [s \in Studies |-> 0]
    /\ tar2bids_outputs = {}
    /\ dataset_commits = [h \in Handles |-> <<>>]
    /\ dataset_archives = <<>>
    /\ archive_remote = <<>>
    /\ arch_hist = [overlap |-> {}, noop |-> {}]
    /\ organized = NoQuery

NextExcl ==
    \/ \E study \in Studies : \E choices_to_exclude, choices_to_include \in ExplicitLists :
          \E unique_checked \in BOOLEAN :
             update_exclusions(study, choices_to_exclude, choices_to_include,
                               unique_checked)
    \/ \E j \in JobIds : check_tar_files(j)

SpecExcl == InitExcl /\ [][NextExcl]_vars

====
